---- MODULE Spec2Model ----
(***************************************************************************)
(* versionator: a semantic version kept in a file `_version.py`, bumped    *)
(* by a command line tool and optionally reflected into git as an          *)
(* annotated tag (src/versionator.py), together with the earlier script    *)
(* revision src/version_updater2/tmp.py.                                   *)
(*                                                                         *)
(* Python strings are modelled as sequences of one-character strings, so   *)
(* that formatting, parsing, matching and replacing are computed and not   *)
(* assumed.                                                                *)
(***************************************************************************)
EXTENDS Integers, Sequences, FiniteSets, TLC

\* ------------------------------------------------------------------ bounds

\* Largest component of a version triple drawn as an input.
MaxComp == 10

\* Number of tool invocations in one behaviour.
MaxRuns == 2

\* ----------------------------------------------------------- str helpers

Digits == <<"0", "1", "2", "3", "4", "5", "6", "7", "8", "9">>

LowerLetters == <<"a", "b", "c", "d", "e", "f", "g", "h", "i", "j", "k", "l", "m",
                  "n", "o", "p", "q", "r", "s", "t", "u", "v", "w", "x", "y", "z">>

UpperLetters == <<"A", "B", "C", "D", "E", "F", "G", "H", "I", "J", "K", "L", "M",
                  "N", "O", "P", "Q", "R", "S", "T", "U", "V", "W", "X", "Y", "Z">>

Range(s) == {s[i] : i \in DOMAIN s}

IsDigit(c) == c \in Range(Digits)

DigitVal(c) == CHOOSE d \in 0..9 : Digits[d + 1] = c

\* str.lower() on one character
LowerChar(c) ==
    IF c \in Range(UpperLetters)
    THEN LowerLetters[CHOOSE i \in DOMAIN UpperLetters : UpperLetters[i] = c]
    ELSE c

\* str.upper() on one character
UpperChar(c) ==
    IF c \in Range(LowerLetters)
    THEN UpperLetters[CHOOSE i \in DOMAIN LowerLetters : LowerLetters[i] = c]
    ELSE c

\* str.lower()
lower(s) == [i \in DOMAIN s |-> LowerChar(s[i])]

\* str.upper()
upper(s) == [i \in DOMAIN s |-> UpperChar(s[i])]

\* str.capitalize()
capitalize(s) == [i \in DOMAIN s |-> IF i = 1 THEN UpperChar(s[i]) ELSE LowerChar(s[i])]

\* str(n) for a non-negative int: its decimal digits
RECURSIVE str(_)
str(n) ==
    IF n < 10 THEN <<Digits[n + 1]>>
    ELSE str(n \div 10) \o <<Digits[(n % 10) + 1]>>

\* whether int(s) accepts s as a plain run of decimal digits
IsDecimal(s) == Len(s) > 0 /\ \A i \in DOMAIN s : IsDigit(s[i])

\* int(s) for a run of decimal digits
RECURSIVE int(_)
int(s) ==
    IF Len(s) = 0 THEN 0
    ELSE 10 * int(SubSeq(s, 1, Len(s) - 1)) + DigitVal(s[Len(s)])

\* s.split(sep) for a one-character separator
RECURSIVE split(_, _)
split(s, sep) ==
    IF \A i \in DOMAIN s : s[i] # sep THEN <<s>>
    ELSE LET k == CHOOSE i \in DOMAIN s : s[i] = sep /\ \A j \in 1..(i - 1) : s[j] # sep
         IN  <<SubSeq(s, 1, k - 1)>> \o split(SubSeq(s, k + 1, Len(s)), sep)

\* sep.join(parts)
RECURSIVE join(_, _)
join(sep, parts) ==
    IF Len(parts) = 0 THEN <<>>
    ELSE IF Len(parts) = 1 THEN parts[1]
    ELSE parts[1] \o sep \o join(sep, Tail(parts))

\* whether `old` occurs in s at position i
OccursAt(s, old, i) ==
    /\ i + Len(old) - 1 <= Len(s)
    /\ \A k \in DOMAIN old : s[i + k - 1] = old[k]

\* whether `old` is a substring of s
Contains(s, old) == \E i \in 1..(Len(s) + 1) : OccursAt(s, old, i)

\* s.replace(old, new): every non-overlapping occurrence, left to right
RECURSIVE ReplaceFrom(_, _, _, _)
ReplaceFrom(s, old, new, i) ==
    IF i > Len(s) THEN <<>>
    ELSE IF OccursAt(s, old, i) THEN new \o ReplaceFrom(s, old, new, i + Len(old))
    ELSE <<s[i]>> \o ReplaceFrom(s, old, new, i + 1)

replace(s, old, new) == ReplaceFrom(s, old, new, 1)

\* -------------------------------------------------------------- constants

DEFAULT_VERSION == <<"0", ".", "0", ".", "0">>

COMMIT_MSG == "\"chore: update version\""

MAJOR == << <<"m", "a", "j", "o", "r">>, <<"b", "i", "g">> >>

MINOR == << <<"m", "i", "n", "o", "r">>, <<"s", "m", "a", "l", "l">> >>

PATCH == << <<"p", "a", "t", "c", "h">>, <<"f", "i", "x">>,
            <<"b", "u", "g", "f", "i", "x">> >>

\* Identifiers.names()
names == MAJOR \o MINOR \o PATCH

\* repr(s) of a str without quotes in it
repr(s) == <<"'">> \o s \o <<"'">>

\* names_repr listing the first name of each kind only
names_repr_first_names ==
    join(<<",", " ">>, <<repr(MAJOR[1]), repr(MINOR[1]), repr(PATCH[1])>>)

\* Identifiers.names_repr()
names_repr == join(<<",", " ">>, [i \in DOMAIN names |-> repr(names[i])])

\* ------------------------------------------------------- version functions

\* update_version_info without the reset of the lower components
update_version_info_no_reset(version_info, identifier) ==
    IF identifier \notin Range(names)
    THEN [raised |-> "ValueError", expected |-> names_repr,
          got |-> repr(lower(identifier)), ret |-> <<>>, arg |-> version_info]
    ELSE LET new ==
                 IF lower(identifier) \in Range(MAJOR)
                 THEN <<version_info[1] + 1, version_info[2], version_info[3]>>
                 ELSE IF lower(identifier) \in Range(MINOR)
                 THEN <<version_info[1], version_info[2] + 1, version_info[3]>>
                 ELSE <<version_info[1], version_info[2], version_info[3] + 1>>
         IN  [raised |-> "", expected |-> <<>>, got |-> <<>>, ret |-> new, arg |-> new]

\* update_version_info whose MAJOR branch adds to the minor component it then resets
update_version_info_major_index(version_info, identifier) ==
    IF identifier \notin Range(names)
    THEN [raised |-> "ValueError", expected |-> names_repr,
          got |-> repr(lower(identifier)), ret |-> <<>>, arg |-> version_info]
    ELSE LET new ==
                 IF lower(identifier) \in Range(MAJOR)
                 THEN <<version_info[1], 0, 0>>
                 ELSE IF lower(identifier) \in Range(MINOR)
                 THEN <<version_info[1], version_info[2] + 1, 0>>
                 ELSE <<version_info[1], version_info[2], version_info[3] + 1>>
         IN  [raised |-> "", expected |-> <<>>, got |-> <<>>, ret |-> new, arg |-> new]

\* update_version_info: `ret` is the returned list, `arg` the list object passed in
\* as the call leaves it, `raised` the exception with its message parts.
update_version_info(version_info, identifier) ==
    IF identifier \notin Range(names)
    THEN [raised |-> "ValueError",
          expected |-> names_repr,
          got |-> repr(lower(identifier)),
          ret |-> <<>>,
          arg |-> version_info]
    ELSE LET new ==
                 IF lower(identifier) \in Range(MAJOR)
                 THEN <<version_info[1] + 1, 0, 0>>
                 ELSE IF lower(identifier) \in Range(MINOR)
                 THEN <<version_info[1], version_info[2] + 1, 0>>
                 ELSE IF lower(identifier) \in Range(PATCH)
                 THEN <<version_info[1], version_info[2], version_info[3] + 1>>
                 ELSE version_info
         IN  [raised |-> "",
              expected |-> <<>>,
              got |-> <<>>,
              ret |-> new,
              arg |-> new]

\* version2info
version2info(version) ==
    LET parts == split(version, ".")
    IN  [i \in DOMAIN parts |-> int(parts[i])]

\* info2version joining without the separator
info2version_no_separator(info) == join(<<>>, [i \in DOMAIN info |-> str(info[i])])

\* info2version
info2version(info) == join(<<".">>, [i \in DOMAIN info |-> str(info[i])])

\* version_updater2/package_version.update_version_info: one name per kind, the
\* list is changed in the branch taken, the refusal comes last
pv_update_version_info(version_info, identifier) ==
    LET new ==
            IF lower(identifier) = MAJOR[1]
            THEN <<version_info[1] + 1, 0, 0>>
            ELSE IF lower(identifier) = MINOR[1]
            THEN <<version_info[1], version_info[2] + 1, 0>>
            ELSE <<version_info[1], version_info[2], version_info[3] + 1>>
    IN  IF lower(identifier) \in {MAJOR[1], MINOR[1], PATCH[1]}
        THEN [raised |-> "", expected |-> <<>>, got |-> <<>>, ret |-> new, arg |-> new]
        ELSE [raised |-> "ValueError",
              expected |-> join(<<",", " ">>, <<repr(MAJOR[1]), repr(MINOR[1]),
                                                repr(PATCH[1])>>),
              got |-> repr(lower(identifier)),
              ret |-> <<>>,
              arg |-> version_info]

\* ------------------------------------------------------------ version file

\* the text `__version__ = "` that starts the assignment
AssignKey == <<"_", "_", "v", "e", "r", "s", "i", "o", "n", "_", "_", " ", "=", " ", "\"">>

\* f'__version__ = "{version}"'
Assign(version) == AssignKey \o version \o <<"\"">>

\* end of the longest run of digits of s that starts at i (the position after it)
RECURSIVE DigitsEnd(_, _)
DigitsEnd(s, i) ==
    IF i <= Len(s) /\ IsDigit(s[i]) THEN DigitsEnd(s, i + 1) ELSE i

\* whether s holds the character c at position i
CharAt(s, i, c) == i <= Len(s) /\ s[i] = c

\* the pattern r'__version__ = "(?P<version>\d+\.\d+\.\d+)"' tried at position
\* `start` of the content
match_at(content, start) ==
    LET b1 == start + Len(AssignKey)
        e1 == DigitsEnd(content, b1)
        e2 == DigitsEnd(content, e1 + 1)
        e3 == DigitsEnd(content, e2 + 1)
        found ==
            /\ OccursAt(content, AssignKey, start)
            /\ e1 > b1
            /\ CharAt(content, e1, ".")
            /\ e2 > e1 + 1
            /\ CharAt(content, e2, ".")
            /\ e3 > e2 + 1
            /\ CharAt(content, e3, "\"")
    IN  [found |-> found,
         version |-> IF found THEN SubSeq(content, b1, e3 - 1) ELSE <<>>]

\* the pattern used with re.search: the first position where it matches
version_search(content) ==
    LET hits == {p \in 1..(Len(content) + 1) : match_at(content, p).found}
    IN  IF hits = {} THEN match_at(content, 1)
        ELSE match_at(content, CHOOSE p \in hits : \A q \in hits : p <= q)

\* re.compile(...).match(content): anchored at the start of the content, not at
\* its end
version_match(content) == match_at(content, 1)

\* Versionator._extract_version_from_file / tmp.extract_version_from_file
extract_version_from_file(content) ==
    LET m == version_match(content)
    IN  IF ~m.found
        THEN [raised |-> "ValueError", version |-> <<>>]
        ELSE [raised |-> "", version |-> m.version]

\* the paths of the directory tree that may hold a file named _version.py
TopPath == "_version.py"

SubPath == "pkg/_version.py"

AllPaths == <<TopPath, SubPath>>

\* the members of the sequence `paths` that exist in the tree, in order
Existing(tree, paths) == SelectSeq(paths, LAMBDA p : p \in DOMAIN tree)

\* list(Path(".").glob("_version.py")): the working directory only
glob(tree) == Existing(tree, <<TopPath>>)

\* list(Path(".").rglob("_version.py")): the whole tree
rglob(tree) == Existing(tree, AllPaths)

\* the outcome of locating, from the list of matches and the version the
\* remediation command writes
locate(found, help_version) ==
    IF Len(found) = 1
    THEN [raised |-> "", path |-> found[1], listed |-> <<>>, help |-> <<>>]
    ELSE IF Len(found) > 1
    THEN [raised |-> "MultipleFilesFoundError", path |-> "", listed |-> found,
          help |-> <<>>]
    ELSE [raised |-> "FileNotFoundError", path |-> "", listed |-> <<>>,
          help |-> Assign(help_version)]

\* Versionator._get_version_file; `help` is the text its remediation command
\* echoes into _version.py
get_version_file(tree) == locate(glob(tree), DEFAULT_VERSION)

\* tmp.find_version_file_path
find_version_file_path(tree) == locate(rglob(tree), <<"1", ".", "0", ".", "0">>)

\* tmp.py update_version_file, which is lines 69-73 of bump_version: the content
\* written back, and the exception raised ("" when it returns)
update_version_file(content, version, new_version) ==
    [raised |-> "", content |-> replace(content, Assign(version), Assign(new_version))]

\* bump_version writing the file under dryrun too
bump_version_ignores_dryrun(content, identifier, dryrun) ==
    LET ext == extract_version_from_file(content)
        upd == update_version_info(version2info(ext.version), identifier)
    IN  IF ext.raised # "" \/ upd.raised # ""
        THEN [raised |-> "ValueError", content |-> content, out |-> <<>>]
        ELSE [raised |-> "",
              content |-> replace(content, Assign(ext.version),
                                  Assign(info2version(upd.ret))),
              out |-> <<>>]

\* Versionator.bump_version on the content of the version file
bump_version(content, identifier, dryrun) ==
    LET ext == extract_version_from_file(content)
        upd == update_version_info(version2info(ext.version), identifier)
        new_version == info2version(upd.ret)
    IN  IF ext.raised # ""
        THEN [raised |-> ext.raised, content |-> content, out |-> <<>>]
        ELSE IF upd.raised # ""
        THEN [raised |-> upd.raised, content |-> content, out |-> <<>>]
        ELSE IF dryrun
        THEN [raised |-> "", content |-> content,
              out |-> <<[kind |-> "updating", version |-> ext.version,
                         new_version |-> new_version]>>]
        ELSE [raised |-> "",
              content |-> replace(content, Assign(ext.version), Assign(new_version)),
              out |-> <<>>]

\* str.strip(chars)
Whitespace == {" ", "\t", "\n", "\r"}

RECURSIVE lstrip(_, _)
lstrip(s, chars) == IF Len(s) > 0 /\ s[1] \in chars THEN lstrip(Tail(s), chars) ELSE s

RECURSIVE rstrip(_, _)
rstrip(s, chars) ==
    IF Len(s) > 0 /\ s[Len(s)] \in chars THEN rstrip(SubSeq(s, 1, Len(s) - 1), chars)
    ELSE s

strip(s, chars) == rstrip(lstrip(s, chars), chars)

\* Versionator.tag.prepare_tag_message: the texts of the -m arguments
prepare_tag_message(msg) ==
    IF msg = <<>> THEN << <<>> >>
    ELSE LET msg_lines == split(msg, "\n")
             stripped == [i \in DOMAIN msg_lines |-> strip(msg_lines[i], Whitespace)]
         IN  SelectSeq(stripped, LAMBDA line : line # <<>>)

\* the narration tag() prints under dryrun
tag_dryrun_out(path, version, tag_message) ==
    [kind |-> "tagging", file |-> path, commit_msg |-> COMMIT_MSG,
     version |-> version, annotations |-> prepare_tag_message(tag_message)]

\* ------------------------------------------------------------------- state

VARIABLES
    files,        \* the directory tree: path of each _version.py |-> its content
    index,        \* git: the content of the version file in the staging area
    commits,      \* git: the history up to HEAD, each commit's content of the file
    tags,         \* git: the tags, in creation order: [name, at (commit number)]
    pc,           \* position of the running invocation
    args,         \* the parsed command line of the running invocation
    version_path, \* Versionator.version_path
    out,          \* what the invocation printed
    cmds,         \* the git commands the invocation ran, in order
    exit,         \* how the invocation ended: [code, raised, ...]
    pre,          \* the tree and the repository when the invocation started
    runs,         \* number of invocations started
    version,      \* tag()'s local `version`
    fn,           \* function applied to the drawn input ("input" before the call)
    input,        \* the drawn input of a function call
    result        \* what the call returned

world == <<files, index, commits, tags>>

invocation == <<pc, args, version_path, out, cmds, exit, pre, runs, version>>

call == <<fn, input, result>>

vars == <<files, index, commits, tags, pc, args, version_path, out, cmds, exit, pre,
          runs, version, fn, input, result>>

\* --------------------------------------------------------------------- git

\* the content of the version file in the commit HEAD names
HeadContent(history) == history[Len(history)]

\* `git describe --abbrev=0 --tags`: the tag on the nearest commit reachable from
\* HEAD (the newest of them when one commit carries several); fails without one
Reachable(tag_seq, history) == {i \in DOMAIN tag_seq : tag_seq[i].at <= Len(history)}

\* what git describe writes to stdout: the tag's name and a line end
describe_stdout(tag_seq, history) ==
    LET r == Reachable(tag_seq, history)
        best == CHOOSE i \in r :
                    \A j \in r : \/ tag_seq[j].at < tag_seq[i].at
                                 \/ (tag_seq[j].at = tag_seq[i].at /\ j <= i)
    IN  tag_seq[best].name \o <<"\n">>

\* get_latest_tag returning stdout as it is
get_latest_tag_unstripped(tag_seq, history) ==
    IF Reachable(tag_seq, history) = {}
    THEN [raised |-> "CalledProcessError", tag |-> <<>>]
    ELSE [raised |-> "", tag |-> describe_stdout(tag_seq, history)]

\* get_latest_tag: check=True raises when git describe fails
get_latest_tag(tag_seq, history) ==
    IF Reachable(tag_seq, history) = {}
    THEN [raised |-> "CalledProcessError", tag |-> <<>>]
    ELSE [raised |-> "", tag |-> strip(describe_stdout(tag_seq, history), {"\n"})]

\* one entry of the log of git commands
Cmd(name, rc, tag_name, annotations) ==
    [cmd |-> name, rc |-> rc, name |-> tag_name, annotations |-> annotations,
     output |-> <<>>]

\* the entry of a command run with capture_output: what it wrote is kept
CmdOut(name, rc, output) == [Cmd(name, rc, <<>>, <<>>) EXCEPT !.output = output]

\* the text tag() looks for in what git commit wrote
NothingToCommit ==
    <<"n", "o", "t", "h", "i", "n", "g", " ", "t", "o", " ",
      "c", "o", "m", "m", "i", "t">>

\* what git commit writes when it made a commit, when the staging area equals
\* HEAD, and when it fails otherwise (no identity configured; or nothing staged
\* while untracked files exist: "nothing added to commit")
CommittedOutput == <<"[", "m", "a", "i", "n", "]">>

CleanOutput == NothingToCommit \o <<",", " ", "c", "l", "e", "a", "n", "\n">>

FailedOutputs ==
    { <<"f", "a", "t", "a", "l">>,
      <<"n", "o", "t", "h", "i", "n", "g", " ", "a", "d", "d", "e", "d", " ", "t", "o",
        " ", "c", "o", "m", "m", "i", "t">> }

\* tag(): if process.returncode != 0, after git add
stage_failed_inverted(returncode) == returncode = 0

stage_failed(returncode) == returncode # 0

\* tag(): the condition under which the commit counts as failed
commit_failed_inverted(returncode, output) ==
    returncode # 0 /\ Contains(output, NothingToCommit)

commit_failed_strict(returncode, output) == returncode # 0

commit_failed(returncode, output) ==
    returncode # 0 /\ ~Contains(output, NothingToCommit)

\* tag(): if process.returncode != 0, after git tag
tag_failed_inverted(returncode) == returncode = 0

tag_failed(returncode) == returncode # 0

\* tag(): the two commands run after a failed git tag, whatever each returns
tag_rollback_unstage_first(soft_rc, reset_rc) ==
    <<Cmd("reset", reset_rc, <<>>, <<>>), Cmd("reset --soft", soft_rc, <<>>, <<>>)>>

tag_rollback_until_failure(soft_rc, reset_rc) ==
    IF soft_rc # 0
    THEN <<Cmd("reset --soft", soft_rc, <<>>, <<>>)>>
    ELSE <<Cmd("reset --soft", soft_rc, <<>>, <<>>), Cmd("reset", reset_rc, <<>>, <<>>)>>

tag_rollback_unstage_only(soft_rc, reset_rc) == <<Cmd("reset", reset_rc, <<>>, <<>>)>>

tag_rollback(soft_rc, reset_rc) ==
    <<Cmd("reset --soft", soft_rc, <<>>, <<>>), Cmd("reset", reset_rc, <<>>, <<>>)>>

\* whether a list of commands holds a successful c
Did(list, c) == \E i \in DOMAIN list : list[i].cmd = c /\ list[i].rc = 0

NoExit == [code |-> -1, raised |-> "", listed |-> <<>>, help |-> <<>>]

Exit(code, raised) == [code |-> code, raised |-> raised, listed |-> <<>>, help |-> <<>>]

\* ----------------------------------------------------- inputs of the model

\* the version triples the files of the initial tree hold
InitVersions == {<<1, 2, 3>>, <<0, 0, 9>>}

\* contents of the initial _version.py of the working directory
InitContents ==
    UNION {
        { Assign(info2version(v)) \o <<"\n">>,
          Assign(info2version(v)) \o <<"\n", "#", " ">> \o Assign(info2version(v))
              \o <<"\n">> } : v \in InitVersions }
    \cup { <<"#", "\n">> \o Assign(<<"1", ".", "2", ".", "3">>) \o <<"\n">>,
           Assign(<<"1", ".", "2">>) \o <<"\n">> }

\* content of the _version.py of the sub-directory, when there is one
SubContent == Assign(<<"2", ".", "0", ".", "0">>) \o <<"\n">>

InitTrees ==
    {<<>>} \cup {(SubPath :> SubContent)}
    \cup {(TopPath :> c) : c \in InitContents}
    \cup {(TopPath :> c) @@ (SubPath :> SubContent) : c \in InitContents}

\* names of the tag the repository may start with
InitTagNames == {<<"1", ".", "2", ".", "3">>, <<"1", ".", "3", ".", "0">>}

\* tag messages given on the command line: --tag absent, given without a text,
\* given with a text
NoMessage == [given |-> FALSE, text |-> <<>>]

TagMessages == {[given |-> TRUE, text |-> <<>>],
                [given |-> TRUE, text |-> <<"f", "i", "x">>]}

\* identifiers typed on the command line: a name of each kind, a second alias,
\* and one in upper case (every alias in every case is drawn in SpecFn)
CliIdentifiers == {MAJOR[1], MINOR[1], PATCH[2], PATCH[3], <<"F", "I", "X">>}

CommandLines ==
    [action : {"bump"}, identifier : CliIdentifiers,
     tag_message : TagMessages \cup {NoMessage}, dryrun : BOOLEAN, about : {""}]
    \cup [action : {"tag"}, identifier : {<<>>}, tag_message : TagMessages,
          dryrun : BOOLEAN, about : {""}]
    \cup [action : {"info"}, identifier : {<<>>}, tag_message : {NoMessage},
          dryrun : {FALSE}, about : {"version", "version-info", "tag"}]

NoArgs == [action |-> "", identifier |-> <<>>, tag_message |-> NoMessage,
           dryrun |-> FALSE, about |-> ""]

\* the content at HEAD of the file tag() works on
TrackedContent(tree) == IF TopPath \in DOMAIN tree THEN tree[TopPath] ELSE <<>>

Snapshot == [files |-> files, index |-> index, commits |-> commits, tags |-> tags]

NoCall == fn = "" /\ input = <<>> /\ result = <<>>

Init ==
    /\ files \in InitTrees
    /\ index = TrackedContent(files)
    /\ commits = <<TrackedContent(files), TrackedContent(files)>>
    /\ tags \in {<<>>} \cup {<<[name |-> n, at |-> 2]>> : n \in InitTagNames}
                \cup {<<[name |-> <<"1", ".", "2", ".", "3">>, at |-> 1],
                        [name |-> <<"1", ".", "3", ".", "0">>, at |-> 2]>>}
    /\ pc = "idle"
    /\ args = NoArgs
    /\ version_path = ""
    /\ out = <<>>
    /\ cmds = <<>>
    /\ exit = NoExit
    /\ pre = Snapshot
    /\ runs = 0
    /\ version = <<>>
    /\ NoCall

\* ------------------------------------------------------- versionator main

\* main up to its dispatch: get_args (argparse refuses an identifier that is not
\* one of its choices) and Versionator(), which locates the version file
Start(a) ==
    /\ pc \in {"idle", "done"}
    /\ runs < MaxRuns
    /\ runs' = runs + 1
    /\ args' = a
    /\ pre' = Snapshot
    /\ out' = <<>>
    /\ cmds' = <<>>
    /\ version' = <<>>
    /\ LET loc == get_version_file(files)
       IN  IF a.action = "bump" /\ a.identifier \notin Range(names)
           THEN /\ pc' = "done"
                /\ exit' = Exit(2, "SystemExit")
                /\ version_path' = ""
           ELSE IF loc.raised # ""
           THEN /\ pc' = "done"
                /\ exit' = [code |-> 1, raised |-> loc.raised, listed |-> loc.listed,
                            help |-> loc.help]
                /\ version_path' = ""
           ELSE /\ pc' = a.action
                /\ exit' = NoExit
                /\ version_path' = loc.path
    /\ UNCHANGED <<world, call>>

\* main: versionator.bump_version(args.identifier, args.dryrun)
BumpVersion ==
    /\ pc = "bump"
    /\ LET r == bump_version(files[version_path], args.identifier, args.dryrun)
       IN  /\ files' = [files EXCEPT ![version_path] = r.content]
           /\ out' = out \o r.out
           /\ IF r.raised # ""
              THEN pc' = "done" /\ exit' = Exit(1, r.raised)
              ELSE IF args.tag_message.given
              THEN pc' = "tag" /\ exit' = exit
              ELSE pc' = "done" /\ exit' = Exit(0, "")
    /\ UNCHANGED <<index, commits, tags, args, version_path, cmds, pre, runs, version,
                   call>>

\* tag() up to its first git command: reads the version and, under dryrun, prints
\* what it would do and returns
TagBegin ==
    /\ pc = "tag"
    /\ LET ext == extract_version_from_file(files[version_path])
       IN  /\ version' = ext.version
           /\ IF ext.raised # ""
              THEN pc' = "done" /\ exit' = Exit(1, ext.raised) /\ out' = out
              ELSE IF args.dryrun
              THEN /\ pc' = "done"
                   /\ exit' = Exit(0, "")
                   /\ out' = Append(out, tag_dryrun_out(version_path, ext.version,
                                                        args.tag_message.text))
              ELSE pc' = "check" /\ exit' = exit /\ out' = out
    /\ UNCHANGED <<world, args, version_path, cmds, pre, runs, call>>

\* tag(): if get_latest_tag() == version: raise RuntimeError
TagCheck ==
    /\ pc = "check"
    /\ LET latest == get_latest_tag(tags, commits)
       IN  /\ cmds' = Append(cmds, Cmd("describe", IF latest.raised = "" THEN 0 ELSE 1,
                                       <<>>, <<>>))
           /\ IF latest.raised # ""
              THEN pc' = "done" /\ exit' = Exit(1, latest.raised)
              ELSE IF latest.tag = version
              THEN pc' = "done" /\ exit' = Exit(1, "RuntimeError")
              ELSE pc' = "stage" /\ exit' = exit
    /\ UNCHANGED <<world, args, version_path, out, pre, runs, version, call>>

\* tag(): git add {file}
TagStage ==
    /\ pc = "stage"
    /\ \E ok \in BOOLEAN :
        LET returncode == IF ok THEN 0 ELSE 1
        IN  /\ cmds' = Append(cmds, Cmd("add", returncode, <<>>, <<>>))
            /\ index' = IF ok THEN files[version_path] ELSE index
            /\ IF stage_failed(returncode)
               THEN /\ pc' = "done"
                    /\ exit' = Exit(1, "SystemExit")
                    /\ out' = Append(out, [kind |-> "failed", cmd |-> "add"])
               ELSE /\ pc' = "commit"
                    /\ exit' = exit
                    /\ out' = out
    /\ UNCHANGED <<files, commits, tags, args, version_path, pre, runs, version, call>>

\* tag(): git commit -m COMMIT_MSG, and git reset {file} when it failed for
\* another reason than "nothing to commit". The staging area holds the version
\* file only: git commits when its staged content differs from HEAD's, reports
\* "nothing to commit" when it does not, and may fail otherwise in either case.
TagCommit ==
    /\ pc = "commit"
    /\ \E outcome \in {"committed", "nothing to commit", "failed"},
          failure \in FailedOutputs, unstaged \in BOOLEAN :
        LET returncode == IF outcome = "committed" THEN 0 ELSE 1
            output == CASE outcome = "committed" -> CommittedOutput
                        [] outcome = "nothing to commit" -> CleanOutput
                        [] OTHER -> failure
            made == IF outcome = "committed" THEN Append(commits, index) ELSE commits
        IN  /\ outcome = "committed" => index # HeadContent(commits)
            /\ outcome = "nothing to commit" => index = HeadContent(commits)
            /\ outcome # "failed" => failure = CHOOSE f \in FailedOutputs : TRUE
            /\ ~commit_failed(returncode, output) => unstaged
            /\ commits' = made
            /\ IF commit_failed(returncode, output)
               THEN /\ cmds' = cmds \o <<CmdOut("commit", returncode, output),
                                         Cmd("reset", IF unstaged THEN 0 ELSE 1,
                                             <<>>, <<>>)>>
                    /\ index' = IF unstaged THEN HeadContent(made) ELSE index
                    /\ pc' = "done"
                    /\ exit' = Exit(1, "SystemExit")
                    /\ out' = Append(out, [kind |-> "failed", cmd |-> "commit"])
               ELSE /\ cmds' = Append(cmds, CmdOut("commit", returncode, output))
                    /\ index' = index
                    /\ pc' = "tagcmd"
                    /\ exit' = exit
                    /\ out' = out
    /\ UNCHANGED <<files, tags, args, version_path, pre, runs, version, call>>

\* tag(): git tag -a {version} {message}, and on failure git reset --soft HEAD~
\* followed by git reset {file}. git tag fails when the name is taken, and may
\* fail otherwise; git reset --soft HEAD~ fails on a history of one commit.
TagTag ==
    /\ pc = "tagcmd"
    /\ \E ok \in BOOLEAN, undone \in BOOLEAN, unstaged \in BOOLEAN :
        LET returncode == IF ok THEN 0 ELSE 1
            annotations == prepare_tag_message(args.tag_message.text)
            rollback == tag_rollback(IF undone THEN 0 ELSE 1, IF unstaged THEN 0 ELSE 1)
            kept == IF Did(rollback, "reset --soft")
                    THEN SubSeq(commits, 1, Len(commits) - 1) ELSE commits
        IN  /\ ok => \A i \in DOMAIN tags : tags[i].name # version
            /\ ~tag_failed(returncode) => undone /\ unstaged
            /\ undone => Len(commits) > 1
            /\ tags' = IF ok THEN Append(tags, [name |-> version, at |-> Len(commits)])
                       ELSE tags
            /\ IF tag_failed(returncode)
               THEN /\ cmds' = cmds \o <<Cmd("tag", returncode, version, annotations)>>
                                    \o rollback
                    /\ commits' = kept
                    /\ index' = IF Did(rollback, "reset") THEN HeadContent(kept)
                                ELSE index
                    /\ exit' = Exit(1, "SystemExit")
                    /\ out' = Append(out, [kind |-> "failed", cmd |-> "tag"])
               ELSE /\ cmds' = Append(cmds, Cmd("tag", returncode, version, annotations))
                    /\ commits' = commits
                    /\ index' = index
                    /\ exit' = Exit(0, "")
                    /\ out' = out
    /\ pc' = "done"
    /\ UNCHANGED <<files, args, version_path, pre, runs, version, call>>

\* main: the info action
Info ==
    /\ pc = "info"
    /\ LET ext == extract_version_from_file(files[version_path])
           latest == get_latest_tag(tags, commits)
       IN  IF args.about = "tag"
           THEN /\ cmds' = Append(cmds, Cmd("describe",
                                            IF latest.raised = "" THEN 0 ELSE 1,
                                            <<>>, <<>>))
                /\ IF latest.raised # ""
                   THEN exit' = Exit(1, latest.raised) /\ out' = out
                   ELSE /\ exit' = Exit(0, "")
                        /\ out' = Append(out, [kind |-> "tag", tag |-> latest.tag])
           ELSE /\ cmds' = cmds
                /\ IF ext.raised # ""
                   THEN exit' = Exit(1, ext.raised) /\ out' = out
                   ELSE /\ exit' = Exit(0, "")
                        /\ out' = Append(out,
                               IF args.about = "version"
                               THEN [kind |-> "version", version |-> ext.version]
                               ELSE [kind |-> "version-info",
                                     version_info |-> version2info(ext.version)])
    /\ pc' = "done"
    /\ UNCHANGED <<world, args, version_path, pre, runs, version, call>>

\* ------------------------------------------------------------------ tmp.py

\* the module-level script of tmp.py (lines 87-95): locate the file in the whole
\* tree, read its version, bump "fix", rewrite the file. Its
\* extract_version_from_file, update_version_info (for "fix"), version2info,
\* info2version and update_version_file are, line for line, what bump_version of
\* versionator.py does without dryrun.
TmpScript ==
    /\ pc \in {"idle", "done"}
    /\ runs < MaxRuns
    /\ runs' = runs + 1
    /\ args' = [NoArgs EXCEPT !.action = "tmp"]
    /\ pre' = Snapshot
    /\ out' = <<>>
    /\ cmds' = <<>>
    /\ version' = <<>>
    /\ pc' = "done"
    /\ LET loc == find_version_file_path(files)
           r == bump_version(files[loc.path], <<"f", "i", "x">>, FALSE)
       IN  IF loc.raised # ""
           THEN /\ exit' = [code |-> 1, raised |-> loc.raised, listed |-> loc.listed,
                            help |-> loc.help]
                /\ version_path' = ""
                /\ files' = files
           ELSE /\ version_path' = loc.path
                /\ files' = [files EXCEPT ![loc.path] = r.content]
                /\ exit' = IF r.raised # "" THEN Exit(1, r.raised) ELSE Exit(0, "")
    /\ UNCHANGED <<index, commits, tags, call>>

Next ==
    \/ \E a \in CommandLines : Start(a)
    \/ BumpVersion
    \/ TagBegin
    \/ TagCheck
    \/ TagStage
    \/ TagCommit
    \/ TagTag
    \/ Info
    \/ TmpScript

Spec == Init /\ [][Next]_vars

\* ------------------------------------------------- the functions on inputs

\* version triples drawn as inputs
Triples == {<<a, b, c>> : a \in 0..MaxComp, b \in 0..MaxComp, c \in 0..MaxComp}

\* identifiers drawn as inputs: every alias in lower case, in upper case and
\* capitalized, and words that are no alias in any case
Nonsense == {<<>>, <<"n", "o", "n", "s", "e", "n", "s", "e">>, <<"m", "a", "j", "o">>,
             <<"p", "a", "t", "c", "h", "x">>, <<"P", "A", "T", "C", "H", "E", "S">>}

Identifiers == Range(names) \cup {upper(n) : n \in Range(names)}
               \cup {capitalize(n) : n \in Range(names)} \cup Nonsense

\* file contents drawn as inputs, kept with the parts they are built from: the
\* text before the assignment, the key up to the opening quote, the dot-separated
\* components, the text after the closing quote
MaxParts == 4

ComponentTexts == {<<"1">>, <<"1", "0">>, <<"a">>, <<>>, <<"+", "1">>}

TextsBefore == {<<>>, <<" ">>, <<"#", "\n">>}

TextsAfter == {<<>>, <<"\n">>, <<"x">>, <<" ", "#", " ", "v", "\n">>}

Keys == {AssignKey,
         <<"_", "_", "v", "e", "r", "s", "i", "o", "n", "_", "_", "=", "\"">>,
         <<"V", "E", "R", "S", "I", "O", "N", " ", "=", " ", "\"">>}

Shapes ==
    UNION {[before : TextsBefore, key : Keys, components : [1..n -> ComponentTexts],
            after : TextsAfter] : n \in 1..MaxParts}

\* the content a shape stands for
TextOf(shape) ==
    shape.before \o shape.key \o join(<<".">>, shape.components) \o <<"\"">>
    \o shape.after

\* contents, old and new versions handed to update_version_file
PersistContents ==
    { <<>>,
      Assign(<<"1", ".", "2", ".", "3">>) \o <<"\n">>,
      <<"#", "\n">> \o Assign(<<"1", ".", "2", ".", "3">>) \o <<"\n">> }

PersistVersions == {<<"1", ".", "2", ".", "3">>, <<"1", ".", "2">>, <<"9", ".", "9", ".", "9">>}

\* tag messages drawn as inputs: every text of at most MaxMsg characters over
\* two letters, the blank and the line end
MaxMsg == 3

MessageChars == {"a", "b", " ", "\n"}

Messages == UNION {[1..n -> MessageChars] : n \in 0..MaxMsg}

FnInputs ==
    [kind : {"bump"}, version_info : Triples, identifier : Identifiers]
    \cup [kind : {"message"}, msg : Messages]
    \cup [kind : {"content"}, shape : Shapes]
    \cup [kind : {"persist"}, content : PersistContents, version : PersistVersions,
          new_version : {<<"1", ".", "2", ".", "4">>}]

InitFn ==
    /\ files = <<>>
    /\ index = <<>>
    /\ commits = <<>>
    /\ tags = <<>>
    /\ pc = "idle"
    /\ args = NoArgs
    /\ version_path = ""
    /\ out = <<>>
    /\ cmds = <<>>
    /\ exit = NoExit
    /\ pre = Snapshot
    /\ runs = 0
    /\ version = <<>>
    /\ fn = "input"
    /\ input \in FnInputs
    /\ result = <<>>

CallUpdateVersionInfo ==
    /\ fn = "input"
    /\ input.kind = "bump"
    /\ fn' = "update_version_info"
    /\ result' = update_version_info(input.version_info, input.identifier)
    /\ UNCHANGED <<world, invocation, input>>

CallPvUpdateVersionInfo ==
    /\ fn = "input"
    /\ input.kind = "bump"
    /\ fn' = "pv_update_version_info"
    /\ result' = pv_update_version_info(input.version_info, input.identifier)
    /\ UNCHANGED <<world, invocation, input>>

\* version2info(info2version(info))
CallRoundTrip ==
    /\ fn = "input"
    /\ input.kind = "bump"
    /\ fn' = "version2info"
    /\ result' = [version |-> info2version(input.version_info),
                  info |-> version2info(info2version(input.version_info))]
    /\ UNCHANGED <<world, invocation, input>>

CallExtract ==
    /\ fn = "input"
    /\ input.kind = "content"
    /\ fn' = "extract_version_from_file"
    /\ result' = extract_version_from_file(TextOf(input.shape))
    /\ UNCHANGED <<world, invocation, input>>

CallUpdateVersionFile ==
    /\ fn = "input"
    /\ input.kind = "persist"
    /\ fn' = "update_version_file"
    /\ result' = update_version_file(input.content, input.version, input.new_version)
    /\ UNCHANGED <<world, invocation, input>>

CallPrepareTagMessage ==
    /\ fn = "input"
    /\ input.kind = "message"
    /\ fn' = "prepare_tag_message"
    /\ result' = prepare_tag_message(input.msg)
    /\ UNCHANGED <<world, invocation, input>>

NextFn ==
    \/ CallPrepareTagMessage
    \/ CallUpdateVersionFile
    \/ CallUpdateVersionInfo
    \/ CallPvUpdateVersionInfo
    \/ CallRoundTrip
    \/ CallExtract

SpecFn == InitFn /\ [][NextFn]_vars

\* ------------------------------------------------------------------ claims

\* the names update_version_info of versionator.py (one name per kind in
\* package_version.py) takes for a kind
Accepted(kind) ==
    IF fn = "pv_update_version_info" THEN {kind[1]} ELSE Range(kind)

\* C1: for every triple (a,b,c) of non-negative integers update_version_info
\* returns (a+1,0,0) for a MAJOR identifier, (a,b+1,0) for a MINOR identifier and
\* (a,b,c+1) for a PATCH identifier.
C1_BumpResult ==
    fn \in {"update_version_info", "pv_update_version_info"} =>
        LET v == input.version_info
            id == input.identifier
        IN  /\ id \in Accepted(MAJOR) =>
                  result.raised = "" /\ result.ret = <<v[1] + 1, 0, 0>>
            /\ id \in Accepted(MINOR) =>
                  result.raised = "" /\ result.ret = <<v[1], v[2] + 1, 0>>
            /\ id \in Accepted(PATCH) =>
                  result.raised = "" /\ result.ret = <<v[1], v[2], v[3] + 1>>

C1_Witness ==
    /\ fn = "update_version_info"
    /\ input.version_info = <<9, 3, 4>>
    /\ input.identifier = <<"s", "m", "a", "l", "l">>
    /\ result.ret = <<9, 4, 0>>

\* C2: identifier matching is case-insensitive and alias-aware: for every alias
\* in any letter case update_version_info succeeds and returns what it returns
\* for the lower-case identifier.
C2_CaseInsensitive ==
    (fn = "update_version_info" /\ lower(input.identifier) \in Range(names)) =>
        /\ result.raised = ""
        /\ result.ret = update_version_info(input.version_info,
                                            lower(input.identifier)).ret

\* C3: for every identifier that matches no accepted alias update_version_info
\* fails with an error whose message enumerates every alias of MAJOR, MINOR and
\* PATCH, and the triple passed in is left as it was.
C3_InvalidIdentifier ==
    (fn = "update_version_info" /\ lower(input.identifier) \notin Range(names)) =>
        /\ result.raised = "ValueError"
        /\ \A kind \in {MAJOR, MINOR, PATCH} :
               \A i \in DOMAIN kind : Contains(result.expected, repr(kind[i]))
        /\ result.arg = input.version_info

C3_Witness ==
    /\ fn = "update_version_info"
    /\ input.identifier = <<"n", "o", "n", "s", "e", "n", "s", "e">>
    /\ input.version_info = <<1, 2, 3>>
    /\ result.raised = "ValueError"
    /\ result.arg = <<1, 2, 3>>

\* C4: round trip: for every triple of non-negative integers
\* version2info(info2version(triple)) is the triple.
C4_RoundTrip ==
    fn = "version2info" => result.info = input.version_info

C4_Witness ==
    /\ fn = "version2info"
    /\ input.version_info = <<10, 0, 9>>
    /\ result.version = <<"1", "0", ".", "0", ".", "9">>
    /\ result.info = <<10, 0, 9>>

\* the files the locating of the invocation searched: the working directory for
\* versionator.py, the whole tree for tmp.py
SearchScope == IF args.action = "tmp" THEN rglob(pre.files) ELSE glob(pre.files)

\* the version a file holds that was created by echoing `text` into it
CreatedVersion(text) == extract_version_from_file(text \o <<"\n">>).version

\* C5: locating succeeds if and only if exactly one matching file exists in the
\* search scope; with none it fails with a not-found error whose message holds
\* the command creating a record with value "0.0.0"; with two or more it fails
\* with an ambiguity error listing every matched path.
C5_Locate ==
    (runs > 0 /\ exit.code # 2) =>
        /\ version_path # "" <=> Len(SearchScope) = 1
        /\ Len(SearchScope) = 1 => version_path = SearchScope[1]
        /\ Len(SearchScope) = 0 =>
               /\ exit.raised = "FileNotFoundError"
               /\ CreatedVersion(exit.help) = <<"0", ".", "0", ".", "0">>
        /\ Len(SearchScope) > 1 =>
               /\ exit.raised = "MultipleFilesFoundError"
               /\ exit.listed = SearchScope

\* a content that is the assignment of three decimal components and nothing else
ExactlyWellFormed(shape) ==
    /\ shape.before = <<>>
    /\ shape.key = AssignKey
    /\ Len(shape.components) = 3
    /\ \A i \in DOMAIN shape.components : IsDecimal(shape.components[i])
    /\ shape.after = <<>>

\* a content that starts with the assignment of three decimal components
StartsWellFormed(shape) ==
    /\ shape.before = <<>>
    /\ shape.key = AssignKey
    /\ Len(shape.components) = 3
    /\ \A i \in DOMAIN shape.components : IsDecimal(shape.components[i])

\* C6 as claimed: reading the version raises whenever the content is not exactly
\* a well-formed assignment, text directly after the closing quote included.
C6_RaisesUnlessExact ==
    (fn = "extract_version_from_file" /\ ~ExactlyWellFormed(input.shape)) =>
        result.raised = "ValueError"

\* C6 amended: reading the version raises exactly when the content does not
\* start with a well-formed assignment (pattern absent, text before it, a
\* non-integer component, a component count other than three); text after the
\* closing quote is not looked at and the version is returned.
C6_RaisesUnlessPrefix ==
    fn = "extract_version_from_file" =>
        /\ result.raised = "ValueError" <=> ~StartsWellFormed(input.shape)
        /\ StartsWellFormed(input.shape) =>
               result.version = join(<<".">>, input.shape.components)

C6_Witness ==
    /\ fn = "extract_version_from_file"
    /\ input.shape.before = <<>>
    /\ input.shape.key = AssignKey
    /\ input.shape.components = <<<<"1">>, <<"1", "0">>, <<"1">>, <<"1">>>>
    /\ result.raised = "ValueError"

\* the invocation rewrote the version file: a bump without dryrun (or the tmp.py
\* script) whose bump_version returned
Rewrote ==
    /\ args.action \in {"bump", "tmp"}
    /\ ~args.dryrun
    /\ version_path # ""
    /\ pc # "bump"
    /\ extract_version_from_file(pre.files[version_path]).raised = ""

\* the identifier the invocation bumps with
BumpIdentifier == IF args.action = "tmp" THEN PATCH[2] ELSE args.identifier

\* C7: after a non-dry-run bump_version the content is the previous content with
\* the version assignment replaced by the new one and nothing else changed, a
\* later occurrence of the same assignment text included.
C7_OnlyAssignmentReplaced ==
    Rewrote =>
        LET old == pre.files[version_path]
            v == extract_version_from_file(old).version
            nv == info2version(update_version_info(version2info(v), BumpIdentifier).ret)
        IN  files[version_path]
                = Assign(nv) \o SubSeq(old, Len(Assign(v)) + 1, Len(old))

\* C8: under dryrun a `bump <id> --tag <msg>` or a `tag <msg>` leaves the version
\* file, the staging area, the history and the tags as they were, and runs no
\* git command at all, the look at the latest tag included.
C8_DryRunFrame ==
    args.dryrun =>
        /\ files = pre.files
        /\ index = pre.index
        /\ commits = pre.commits
        /\ tags = pre.tags
        /\ cmds = <<>>

C8_Witness ==
    /\ pc = "done"
    /\ args.action = "bump"
    /\ args.dryrun
    /\ args.tag_message.given
    /\ exit.code = 0
    /\ Len(out) = 2
    /\ out[1].kind = "updating"
    /\ out[2].kind = "tagging"

\* the version the same command line narrates as the one to tag when run with
\* --dryrun on `content`
DryRunTaggedVersion(content) ==
    LET bumped == bump_version(content, args.identifier, TRUE)
    IN  tag_dryrun_out(version_path,
                       extract_version_from_file(bumped.content).version,
                       args.tag_message.text).version

\* C9: for `bump <id> --tag <msg>` the version the dry run reports it would tag
\* is the version the same invocation without --dryrun uses as the tag's name.
C9_SameTagNarrated ==
    (args.action = "bump" /\ ~args.dryrun /\ args.tag_message.given) =>
        \A i \in DOMAIN cmds :
            cmds[i].cmd = "tag" =>
                cmds[i].name = DryRunTaggedVersion(pre.files[version_path])

\* the tag created last names the version to tag and sits on HEAD: it is the
\* latest tag
LatestTagIsVersion ==
    /\ pre.tags # <<>>
    /\ pre.tags[Len(pre.tags)].name = version
    /\ pre.tags[Len(pre.tags)].at = Len(pre.commits)

\* C10: when the latest tag equals the version to tag, a non-dry-run tag() fails
\* with the already-tagged error before any stage, commit or tag command, and the
\* repository is as it was.
C10_AlreadyTagged ==
    (/\ args.action \in {"bump", "tag"}
     /\ ~args.dryrun
     /\ pc \notin {"idle", "bump", "tag", "check"}
     /\ cmds # <<>>
     /\ LatestTagIsVersion) =>
        /\ pc = "done"
        /\ exit.code = 1
        /\ exit.raised = "RuntimeError"
        /\ \A i \in DOMAIN cmds : cmds[i].cmd = "describe"
        /\ index = pre.index
        /\ commits = pre.commits
        /\ tags = pre.tags

C10_Witness ==
    /\ args.action = "bump"
    /\ ~args.dryrun
    /\ LatestTagIsVersion
    /\ version = <<"1", ".", "3", ".", "0">>
    /\ exit.raised = "RuntimeError"
    /\ files # pre.files

\* ------------------------------- version_updater2/package_version.py (JSON)
\* The version file is version.json, a JSON object; the model holds the object
\* json.load returns (its keys and their values), which is what json.dump wrote.

\* number of invocations of the JSON tool
MaxPvRuns == 2

PvTop == "version.json"

PvSubDir == "pkg"

PvSub == "pkg/version.json"

\* write_version with a version string of two components
pv_write_version_major_minor(version_info) ==
    [version |-> info2version(SubSeq(version_info, 1, 2)),
     version_info |-> version_info]

\* write_version: the object it dumps
pv_write_version(version_info) ==
    [version |-> info2version(version_info), version_info |-> version_info]

\* read_version_info and read_version
pv_read_version_info(contents) ==
    IF "version_info" \notin DOMAIN contents
    THEN [raised |-> "WrongVersionFormatError", ret |-> <<>>]
    ELSE [raised |-> "", ret |-> contents.version_info]

pv_read_version(contents) ==
    IF "version" \notin DOMAIN contents
    THEN [raised |-> "WrongVersionFormatError", ret |-> <<>>]
    ELSE [raised |-> "", ret |-> contents.version]

\* sorted(dir_.rglob("version.json")): "pkg/version.json" sorts before
\* "version.json"
pv_rglob(tree, dir_) ==
    IF dir_ = PvSubDir
    THEN Existing(tree, <<PvSub>>)
    ELSE Existing(tree, <<PvSub, PvTop>>)

\* the tag `git tag v{version}` makes
VTag(version_text) == <<"v">> \o version_text

\* find_version_path: filename is "" for None, a path otherwise. Answers with
\* the path, or with the exception or the exit code that ends the invocation,
\* and with the tree and the tags as it leaves them. git_ok is whether its
\* `git tag v1.0.0` succeeds.
pv_find_version_path(tree, tag_seq, filename, force, tag, git_ok) ==
    LET ends == [raised |-> "", code |-> -1, path |-> "", tree |-> tree,
                 tags |-> tag_seq, out |-> <<>>]
        handle_dir(dir_) ==
            LET vfiles == pv_rglob(tree, dir_)
                created == (PvTop :> pv_write_version(<<1, 0, 0>>)) @@ tree
                v100 == [name |-> VTag(info2version(<<1, 0, 0>>)), at |-> 0]
            IN  IF Len(vfiles) = 1
                THEN [ends EXCEPT !.path = vfiles[1]]
                ELSE IF Len(vfiles) > 1
                THEN [ends EXCEPT !.path = vfiles[1],
                                  !.out = <<[kind |-> "multiple", n |-> Len(vfiles)]>>]
                ELSE IF force /\ tag
                THEN [ends EXCEPT !.code = 0, !.tree = created,
                                  !.tags = IF git_ok THEN Append(tag_seq, v100)
                                           ELSE tag_seq,
                                  !.out = <<[kind |-> "creating", n |-> 0],
                                            [kind |-> IF git_ok THEN "tagged"
                                                      ELSE "no repo", n |-> 0]>>]
                ELSE IF force
                THEN [ends EXCEPT !.code = 0, !.tree = created,
                                  !.out = <<[kind |-> "creating", n |-> 0]>>]
                ELSE [ends EXCEPT !.code = 0,
                                  !.out = <<[kind |-> "dryrun", n |-> 0]>>]
    IN  IF filename = ""
        THEN handle_dir(".")
        ELSE IF filename \in DOMAIN tree
        THEN [ends EXCEPT !.path = filename]
        ELSE IF filename = PvSubDir /\ PvSub \in DOMAIN tree
        THEN handle_dir(filename)
        ELSE [ends EXCEPT !.raised = "FileNotFoundError"]

\* the objects the initial version.json may hold: consistent ones, one whose
\* version string is not that of its version_info, one without version_info
PvInitRecords ==
    {pv_write_version(v) : v \in InitVersions}
    \cup {[version |-> <<"9", ".", "9", ".", "9">>, version_info |-> <<1, 2, 3>>],
          [version |-> <<"1", ".", "2", ".", "3">>]}

PvInitTrees ==
    LET sub == PvSub :> pv_write_version(<<2, 0, 0>>)
    IN  {<<>>, sub}
        \cup {(PvTop :> r) : r \in PvInitRecords}
        \cup {(PvTop :> r) @@ sub : r \in PvInitRecords}

\* the choices of the bump identifier
PvChoices == {MAJOR[1], MINOR[1], PATCH[1]}

\* --filename: absent, the file, the sub-directory
PvFilenames == {"", PvTop, PvSubDir}

PvCommandLines ==
    [op : {"bump"}, identifier : PvChoices \cup {<<"f", "i", "x">>},
     filename : PvFilenames, force : BOOLEAN, tag : BOOLEAN]
    \cup [op : {"info"}, identifier : {<<>>}, filename : PvFilenames,
          force : BOOLEAN, tag : BOOLEAN]

InitJson ==
    /\ files \in PvInitTrees
    /\ index = <<>>
    /\ commits = <<>>
    /\ tags = <<>>
    /\ pc = "idle"
    /\ args = NoArgs
    /\ version_path = ""
    /\ out = <<>>
    /\ cmds = <<>>
    /\ exit = NoExit
    /\ pre = Snapshot
    /\ runs = 0
    /\ version = <<>>
    /\ NoCall

\* what every invocation of the JSON tool sets when it starts and ends
PvRun(a) ==
    /\ pc \in {"idle", "done"}
    /\ runs < MaxPvRuns
    /\ runs' = runs + 1
    /\ args' = a
    /\ pre' = Snapshot
    /\ pc' = "done"
    /\ UNCHANGED <<index, commits, call>>

\* pckg_versioner with the bump subcommand: argparse, then update_version_func.
\* git_ok, whether `git tag` succeeds, is drawn when the command line makes one.
PvBump(a) ==
    /\ a.op = "bump"
    /\ PvRun(a)
    /\ \E git_ok \in BOOLEAN :
        LET loc == pv_find_version_path(files, tags, a.filename, a.force, FALSE, git_ok)
            read == pv_read_version_info(files[loc.path])
            info == pv_update_version_info(read.ret, a.identifier).ret
            new_version == info2version(info)
            tagged == git_ok /\ \A i \in DOMAIN tags : tags[i].name # VTag(new_version)
        IN  /\ ~(a.force /\ a.tag) => git_ok
            /\ IF a.identifier \notin PvChoices
               THEN /\ exit' = Exit(2, "SystemExit")
                    /\ version_path' = ""
                    /\ version' = <<>>
                    /\ out' = <<>>
                    /\ cmds' = <<>>
                    /\ UNCHANGED <<files, tags>>
               ELSE IF loc.raised # "" \/ loc.code >= 0
               THEN /\ exit' = IF loc.raised # "" THEN Exit(1, loc.raised)
                               ELSE Exit(loc.code, "SystemExit")
                    /\ files' = loc.tree
                    /\ tags' = loc.tags
                    /\ out' = loc.out
                    /\ version_path' = loc.path
                    /\ version' = <<>>
                    /\ cmds' = <<>>
               ELSE IF read.raised # ""
               THEN /\ exit' = Exit(1, read.raised)
                    /\ version_path' = loc.path
                    /\ out' = loc.out
                    /\ version' = <<>>
                    /\ cmds' = <<>>
                    /\ UNCHANGED <<files, tags>>
               ELSE /\ exit' = Exit(0, "")
                    /\ version_path' = loc.path
                    /\ version' = new_version
                    /\ files' = IF a.force
                                THEN [files EXCEPT ![loc.path] = pv_write_version(info)]
                                ELSE files
                    /\ tags' = IF a.force /\ a.tag /\ tagged
                               THEN Append(tags, [name |-> VTag(new_version), at |-> 0])
                               ELSE tags
                    /\ cmds' = IF a.force /\ a.tag
                               THEN <<Cmd("tag", IF tagged THEN 0 ELSE 1,
                                          VTag(new_version), <<>>)>>
                               ELSE <<>>
                    /\ out' = loc.out \o
                              <<[kind |-> IF a.force THEN "updated" ELSE "dryrun",
                                 n |-> 0]>>

\* pckg_versioner with the info subcommand: view_version_func
PvInfo(a) ==
    /\ a.op = "info"
    /\ PvRun(a)
    /\ \E git_ok \in BOOLEAN :
        LET loc == pv_find_version_path(files, tags, a.filename, a.force, a.tag, git_ok)
            read == pv_read_version(files[loc.path])
        IN  /\ ~(a.force /\ a.tag) => git_ok
            /\ files' = loc.tree
            /\ tags' = loc.tags
            /\ version_path' = loc.path
            /\ version' = <<>>
            /\ cmds' = <<>>
            /\ IF loc.raised # ""
               THEN exit' = Exit(1, loc.raised) /\ out' = loc.out
               ELSE IF loc.code >= 0
               THEN exit' = Exit(loc.code, "SystemExit") /\ out' = loc.out
               ELSE IF read.raised # ""
               THEN exit' = Exit(1, read.raised) /\ out' = loc.out
               ELSE /\ exit' = Exit(0, "")
                    /\ out' = loc.out \o <<[kind |-> "version", version |-> read.ret]>>

NextJson ==
    \/ \E a \in PvCommandLines : PvBump(a)
    \/ \E a \in PvCommandLines : PvInfo(a)

SpecJson == InitJson /\ [][NextJson]_vars

\* ------------------------------------------------ tag(): failures, rollback

\* the invocation runs tag() for real
Tagging == args.action \in {"bump", "tag"} /\ ~args.dryrun

\* the i-th git command of the invocation is the named one and it succeeded
Succeeded(i, c) == i \in DOMAIN cmds /\ cmds[i].cmd = c /\ cmds[i].rc = 0

Failed(i, c) == i \in DOMAIN cmds /\ cmds[i].cmd = c /\ cmds[i].rc # 0

\* the i-th command is a git commit that reported "nothing to commit"
NothingCommitted(i) == Failed(i, "commit") /\ Contains(cmds[i].output, NothingToCommit)

\* the i-th command is a git commit that failed for another reason
CommitBroke(i) == Failed(i, "commit") /\ ~Contains(cmds[i].output, NothingToCommit)

Issued(c) == \E i \in DOMAIN cmds : cmds[i].cmd = c

EndedInFailure == pc = "done" /\ exit.code > 0

\* C11: when git add succeeded and git commit failed for another reason than
\* "nothing to commit", tag() runs git reset on the version file as its next and
\* last command, ends with a non-zero exit code, and never runs git tag.
C11_CommitFailure ==
    \A i \in DOMAIN cmds :
        (Tagging /\ Succeeded(i - 1, "add") /\ CommitBroke(i)) =>
            /\ Len(cmds) = i + 1
            /\ cmds[i + 1].cmd = "reset"
            /\ EndedInFailure
            /\ ~Issued("tag")
            /\ tags = pre.tags

C11_Witness ==
    /\ Tagging
    /\ \E i \in DOMAIN cmds :
        /\ Succeeded(i - 1, "add")
        /\ CommitBroke(i)
        /\ Contains(cmds[i].output, <<"n", "o", "t", "h", "i", "n", "g">>)
    /\ cmds[Len(cmds)].cmd = "reset"
    /\ exit.code = 1
    /\ index # pre.index

\* the steps of a bump invocation, read from where it stands: the file was
\* located and parsed, the identifier taken, the new version written (unless
\* dryrun), and with --tag and without dryrun the four git commands of tag() ran,
\* each succeeding (git commit counting when it reported "nothing to commit")
Located == version_path # ""

Parsed == Located /\ extract_version_from_file(pre.files[version_path]).raised = ""

Bumped == args.identifier \in Range(names)

Persisted ==
    /\ Parsed
    /\ Bumped
    /\ LET old == extract_version_from_file(pre.files[version_path]).version
           new == info2version(update_version_info(version2info(old),
                                                   args.identifier).ret)
       IN  OccursAt(files[version_path], Assign(new), 1)

TagSteps ==
    /\ Len(cmds) = 4
    /\ Succeeded(1, "describe")
    /\ Succeeded(2, "add")
    /\ Succeeded(3, "commit") \/ NothingCommitted(3)
    /\ Succeeded(4, "tag")

EveryStepSucceeded ==
    /\ Located
    /\ Parsed
    /\ Bumped
    /\ ~args.dryrun => Persisted
    /\ (args.tag_message.given /\ ~args.dryrun) => TagSteps

\* C13: a bump invocation ends with exit code 0 exactly when every step it ran
\* succeeded; it ends with a positive exit code otherwise.
C13_ExitCode ==
    (args.action = "bump" /\ pc = "done") =>
        /\ exit.code = 0 <=> EveryStepSucceeded
        /\ exit.code >= 0

C13_Witness ==
    /\ args.action = "bump"
    /\ pc = "done"
    /\ args.tag_message.given
    /\ ~args.dryrun
    /\ exit.code = 0
    /\ TagSteps
    /\ Succeeded(3, "commit")
    /\ Len(commits) = Len(pre.commits) + 1

\* C14: the rollback never removes a commit the invocation did not create: the
\* history at the start of the invocation stays a prefix of the history, and
\* after "nothing to commit" and a failed git tag HEAD is where it was.
C14_RollbackKeepsHead ==
    Tagging =>
        /\ Len(commits) >= Len(pre.commits)
        /\ SubSeq(commits, 1, Len(pre.commits)) = pre.commits
        /\ (\E i \in DOMAIN cmds : NothingCommitted(i) /\ Failed(i + 1, "tag")) =>
               commits = pre.commits

\* C15: when git add and git commit succeeded and git tag failed, tag() runs
\* git reset --soft HEAD~, then git reset on the version file, then ends in
\* failure; the invocation created no tag, and an undone commit leaves the
\* history as it was.
C15_TagFailure ==
    \A i \in DOMAIN cmds :
        (Tagging /\ Succeeded(i - 2, "add") /\ Succeeded(i - 1, "commit")
         /\ Failed(i, "tag")) =>
            /\ Len(cmds) = i + 2
            /\ cmds[i + 1].cmd = "reset --soft"
            /\ cmds[i + 2].cmd = "reset"
            /\ EndedInFailure
            /\ tags = pre.tags
            /\ cmds[i + 1].rc = 0 => commits = pre.commits

C15_Witness ==
    /\ Tagging
    /\ \E i \in DOMAIN cmds :
        /\ Succeeded(i - 2, "add")
        /\ Succeeded(i - 1, "commit")
        /\ Failed(i, "tag")
        /\ Succeeded(i + 1, "reset --soft")
        /\ Succeeded(i + 2, "reset")
    /\ index = pre.index
    /\ files # pre.files
    /\ exit.code = 1

\* the i-th command is one of the steps of tag(), not of its rollback
Step(i) == cmds[i].cmd \in {"describe", "add", "commit", "tag"}

\* C16: after a git commit that reported "nothing to commit" the next command of
\* tag() is git tag, with no rollback in between; after any other failed step no
\* further step is run (only rollback commands) and the invocation ends in
\* failure.
C16_NothingToCommit ==
    Tagging =>
        \A i \in DOMAIN cmds :
            /\ NothingCommitted(i) =>
                   IF i = Len(cmds) THEN pc = "tagcmd" /\ exit = NoExit
                   ELSE cmds[i + 1].cmd = "tag"
            /\ (Step(i) /\ cmds[i].rc # 0 /\ ~NothingCommitted(i)) =>
                   /\ EndedInFailure
                   /\ \A j \in DOMAIN cmds : j > i => ~Step(j)

C16_Witness ==
    /\ Tagging
    /\ pc = "done"
    /\ NothingCommitted(3)
    /\ Succeeded(4, "tag")
    /\ exit.code = 0
    /\ commits = pre.commits
    /\ Len(tags) = Len(pre.tags) + 1

\* C17: when git add fails, it is the last git command of the invocation (no
\* commit, tag, reset or soft reset follows), the invocation ends in failure, and
\* the repository is as it was.
C17_StageFailure ==
    \A i \in DOMAIN cmds :
        (Tagging /\ Failed(i, "add")) =>
            /\ i = Len(cmds)
            /\ EndedInFailure
            /\ index = pre.index
            /\ commits = pre.commits
            /\ tags = pre.tags

C17_Witness ==
    /\ Tagging
    /\ Failed(Len(cmds), "add")
    /\ Succeeded(Len(cmds) - 1, "describe")
    /\ exit.code = 1
    /\ files # pre.files

\* C18: a failing rollback command does not stop the rollback and does not turn
\* the failure into a success: a failed git reset --soft HEAD~ is still followed
\* by git reset on the version file, and whenever a rollback command failed
\* the invocation ends with a non-zero exit code.
C18_BestEffortRollback ==
    \A i \in DOMAIN cmds :
        /\ (Tagging /\ Failed(i, "reset --soft")) =>
               /\ i + 1 = Len(cmds)
               /\ cmds[i + 1].cmd = "reset"
               /\ EndedInFailure
        /\ (Tagging /\ Failed(i, "reset")) =>
               /\ i = Len(cmds)
               /\ EndedInFailure
        /\ (Tagging /\ Failed(i, "tag")) =>
               /\ Issued("reset --soft")
               /\ Issued("reset")

C18_Witness ==
    /\ Tagging
    /\ \E i \in DOMAIN cmds :
        /\ Failed(i, "tag")
        /\ Failed(i + 1, "reset --soft")
        /\ Succeeded(i + 2, "reset")
    /\ exit.code = 1
    /\ commits # pre.commits
    /\ index = pre.index

\* C19: a non-dry-run tag() whose git describe has run either found the latest
\* tag equal to the version to tag, or goes on to git add; a repository without
\* a tag is one where it goes on.
C19_ProceedsUnlessLatest ==
    (Tagging /\ Issued("describe")) =>
        LET latest == get_latest_tag(pre.tags, pre.commits)
        IN  \/ latest.raised = "" /\ latest.tag = version
            \/ pc = "stage"
            \/ Issued("add")

\* ----------------------------------------------------- the JSON record

\* the object's version string is the dotted form of its version_info
Consistent(contents) ==
    /\ DOMAIN contents = {"version", "version_info"}
    /\ Len(contents.version_info) = 3
    /\ contents.version =
           str(contents.version_info[1]) \o <<".">> \o str(contents.version_info[2])
               \o <<".">> \o str(contents.version_info[3])

\* C12: every version.json the invocation wrote holds a version string that is
\* the dotted form of its version_info; a tree of consistent records stays one
\* through any sequence of invocations.
C12_RecordConsistent ==
    /\ \A p \in DOMAIN files :
           \/ Consistent(files[p])
           \/ p \in DOMAIN pre.files /\ files[p] = pre.files[p]
    /\ (\A p \in DOMAIN pre.files : Consistent(pre.files[p])) =>
           \A p \in DOMAIN files : Consistent(files[p])

C12_Witness ==
    /\ runs = MaxPvRuns
    /\ args.op = "bump"
    /\ args.force
    /\ version_path = PvTop
    /\ files # pre.files
    /\ Consistent(files[PvTop])
    /\ files[PvTop].version_info[3] > 9

\* ---------------------------------------------------------------- persist

\* C20: when the assignment of the old version does not occur in the file,
\* update_version_file leaves the content as it is and raises.
C20_AbsentOldVersion ==
    (fn = "update_version_file" /\ ~Contains(input.content, Assign(input.version))) =>
        /\ result.content = input.content
        /\ result.raised # ""

\* ------------------------------------------------------- purity of the bump

\* C21: update_version_info leaves the list it is given as it was: after the
\* call the caller's triple still holds the old components.
C21_ArgumentUntouched ==
    (fn \in {"update_version_info", "pv_update_version_info"} /\ result.raised = "") =>
        result.arg = input.version_info

\* ------------------------------------------- the JSON tool's search

\* the invocation of the JSON tool searched a directory: --filename was absent
\* (the working directory) or names the sub-directory
SearchedDir ==
    IF args.filename = "" THEN "."
    ELSE IF args.filename = PvSubDir /\ PvSub \in DOMAIN pre.files THEN PvSubDir
    ELSE ""

\* C22: find_version_path answers with a path for a directory only when the
\* directory tree holds exactly one version.json; with none the invocation ends
\* with a non-zero exit code and has created no file and no tag.
C22_ExactlyOneMatch ==
    (pc = "done" /\ args.identifier \in PvChoices \cup {<<>>} /\ SearchedDir # "") =>
        LET n == Len(pv_rglob(pre.files, SearchedDir))
        IN  /\ version_path # "" => n = 1
            /\ n = 0 => exit.code > 0 /\ files = pre.files /\ tags = pre.tags

\* ------------------------------------------------------ sequences of bumps

\* the invocation is a bump without dryrun whose bump_version has returned
BumpDone ==
    /\ args.action = "bump"
    /\ ~args.dryrun
    /\ pc \notin {"idle", "bump"}
    /\ Located
    /\ Parsed
    /\ Bumped

\* lexicographic order of triples
LexLess(a, b) ==
    \/ a[1] < b[1]
    \/ a[1] = b[1] /\ a[2] < b[2]
    \/ a[1] = b[1] /\ a[2] = b[2] /\ a[3] < b[3]

\* the triple a bump of `old` is to give
BumpOf(old, identifier) ==
    IF lower(identifier) \in Range(MAJOR) THEN <<old[1] + 1, 0, 0>>
    ELSE IF lower(identifier) \in Range(MINOR) THEN <<old[1], old[2] + 1, 0>>
    ELSE <<old[1], old[2], old[3] + 1>>

\* C23: after a successful bump without dryrun, whatever invocations came
\* before, the file reads back as a version of exactly three non-negative
\* integers, which is the bumped value of the version it held and is greater
\* than it in the lexicographic order.
C23_BumpSequence ==
    BumpDone =>
        LET before == extract_version_from_file(pre.files[version_path])
            old == version2info(before.version)
            read == extract_version_from_file(files[version_path])
            new == version2info(read.version)
        IN  /\ read.raised = ""
            /\ Len(new) = 3
            /\ \A i \in 1..3 : new[i] \in Nat
            /\ LexLess(old, new)
            /\ new = BumpOf(old, args.identifier)
            /\ read.version = info2version(BumpOf(old, args.identifier))

C23_Witness ==
    /\ BumpDone
    /\ runs = 2
    /\ extract_version_from_file(pre.files[version_path]).version
           = <<"0", ".", "0", ".", "1", "0">>
    /\ extract_version_from_file(files[version_path]).version
           = <<"0", ".", "1", ".", "0">>
    /\ pc = "done"
    /\ exit.code = 0

\* ---------------------------------------------------- the tag's annotations

\* the lines of a message that hold a character other than white space
NonBlankLines(msg) ==
    SelectSeq(split(msg, "\n"),
              LAMBDA line : \E i \in DOMAIN line : line[i] \notin Whitespace)

\* C24: the -m arguments prepare_tag_message builds are the non-blank lines of
\* the message, one each and in their order (without the white space around
\* them), and the single empty one when the message has no non-blank line; they
\* are never none.
C24_Annotations ==
    fn = "prepare_tag_message" =>
        LET lines == NonBlankLines(input.msg)
        IN  /\ result # <<>>
            /\ lines = <<>> => result = << <<>> >>
            /\ lines # <<>> =>
                   /\ Len(result) = Len(lines)
                   /\ \A i \in DOMAIN lines : result[i] = strip(lines[i], Whitespace)

\* --------------------------------------------------- tag() and the file

\* the content of the version file when tag() starts: the bumped content after
\* bump_version, the content the invocation found otherwise
FileAtTag ==
    IF args.action = "bump"
    THEN bump_version(pre.files[version_path], args.identifier, FALSE).content
    ELSE pre.files[version_path]

\* a step of tag() failed and every rollback command that was run succeeded
RolledBack ==
    /\ pc = "done"
    /\ \E i \in DOMAIN cmds : Failed(i, "add") \/ CommitBroke(i) \/ Failed(i, "tag")
    /\ \A i \in DOMAIN cmds : cmds[i].cmd \in {"reset --soft", "reset"} => cmds[i].rc = 0

\* C25: from its first git command on, tag() leaves the tree as it found it;
\* after a bump with --tag whose git add, git commit or git tag failed and was
\* rolled back, the file reads back as the bumped version, and the history and
\* the tags are those of before the invocation.
C25_FileKept ==
    (Tagging /\ Located /\ pc \notin {"idle", "bump", "tag"}) =>
        /\ files = [pre.files EXCEPT ![version_path] = FileAtTag]
        /\ (args.action = "bump" /\ RolledBack) =>
               LET before == extract_version_from_file(pre.files[version_path])
                   bumped == BumpOf(version2info(before.version), args.identifier)
               IN  /\ extract_version_from_file(files[version_path]).version
                          = info2version(bumped)
                   /\ files # pre.files
                   /\ commits = pre.commits
                   /\ tags = pre.tags

C25_Witness ==
    /\ args.action = "bump"
    /\ Tagging
    /\ RolledBack
    /\ Succeeded(3, "commit")
    /\ Failed(4, "tag")
    /\ runs = 1
    /\ extract_version_from_file(files[version_path]).version
           = <<"1", ".", "3", ".", "0">>
    /\ commits = pre.commits

====
